---- MODULE Spec2Model ----
(***************************************************************************)
(* Share-It (src/app.py): lifecycle of uploaded files.  A file is stored   *)
(* on the local disk or in an S3 bucket, a row of the SQLite table "files" *)
(* tracks it, and rows and objects are removed by the cleanup cycle, by    *)
(* the download handler (expired links), by the deferred deletion of       *)
(* one-time downloads and by the purge endpoints.                          *)
(*                                                                         *)
(* Every handler of app.py is an "async def" running on one event loop; a  *)
(* handler is atomic between two awaits.  Only upload (await file.read)    *)
(* and the deferred deletions (await asyncio.sleep) suspend, so every      *)
(* other handler is one action.                                            *)
(*                                                                         *)
(* Time is counted in days.  A clock reading happens at a later instant    *)
(* than every stamp written before it, so at day resolution the source's   *)
(* strict comparison "reading > stamp" holds as soon as the day of the     *)
(* reading has reached the day of the stamp (operator After).              *)
(***************************************************************************)
EXTENDS Integers, FiniteSets, Sequences, TLC

\* ---------------------------------------------------------------- bounds
NumTokens == 2      \* tokens (and file ids) that exist in a behaviour
MaxTime == 2        \* last day the clock reaches
MaxDays == 2        \* largest retention (days) configured or requested
MaxDl == 2          \* downloads of one token whose deletion is still pending
MaxHours == 2       \* largest cleanup interval (hours) a request asks for

\* ------------------------------------------------------------- constants
Null == -1          \* expires_at IS NULL
Corrupt == -2       \* expires_at that datetime.fromisoformat rejects
ConfigLimit == 365  \* upper limit of both retention settings in the admin API
IntervalLimit == 168          \* upper limit of the cleanup interval in the admin API
CLEANUP_INTERVAL_HOURS == 1   \* module global, set from the environment at import

Tokens == 1..NumTokens
Days == 0..MaxDays

VARIABLES
    db,                  \* table files: token -> row, DOMAIN db = tokens with a row
    disk,                \* STORAGE_DIR: path -> st_mtime, DOMAIN disk = files present
    s3,                  \* keys present in the bucket
    now,                 \* wall clock, in days
    DEFAULT_EXPIRE_DAYS, \* runtime configuration
    MAX_EXPIRE_DAYS,
    STORAGE_BACKEND,     \* "local" or "s3"
    S3_CONFIGURED,       \* S3_BUCKET, S3_ACCESS_KEY and S3_SECRET_KEY all set
    up,                  \* local uploads suspended in the chunk loop: token ->
                         \* [days: expires_in_days after the clamp, req: as requested]
    issued,              \* tokens generated so far
    streams,             \* one-time FileResponse transfers in flight, per token
    localTasks,          \* scheduled delete_one_time_file tasks, per token
    s3Tasks,             \* scheduled delayed_delete_s3 tasks, per token
    consumed,            \* one-time tokens whose content was served at least once
    sweeper,             \* the process and its periodic_cleanup task: "sleep" (waiting
                         \* for the next cycle), "backoff" (waiting after an error),
                         \* "cancelled" (shut down), "down" (the process died),
                         \* "failed" (startup raised, no task was created)
    cleanup_interval_hours,  \* "cleanup_interval_hours" of the saved configuration
    cut,                 \* history: tokens whose backend object was removed by a
                         \* cycle that did not commit, until a cycle completes
    ev                   \* the last request or task and its result

vars == <<db, disk, s3, now, DEFAULT_EXPIRE_DAYS, MAX_EXPIRE_DAYS, STORAGE_BACKEND,
          S3_CONFIGURED, up, issued, streams, localTasks, s3Tasks, consumed, sweeper,
          cut, cleanup_interval_hours, ev>>

\* ------------------------------------------------------------- helpers
\* A row of table files.  The path of the row of token t is the file or key
\* t: upload generates file_id and token together, one pair per upload.
Row(exp, ot, st, cr) == [exp |-> exp, one_time |-> ot, storage |-> st, created |-> cr]

Min(a, b) == IF a < b THEN a ELSE b

Restrict(f, S) == [x \in S |-> f[x]]

Event(op, t, res) == [op |-> op, tok |-> t, res |-> res]

\* datetime.now(timezone.utc) > stamp, for a stamp written earlier
After(stamp) == now >= stamp

\* Path(row["path"]).exists(): a local file; an "s3://bucket/key" path names
\* no file of the local filesystem
LocalExists(t, d) == t \in DOMAIN d

\* the object a row refers to is present in its backend
ObjExists(t, r, d, s) == IF r.storage = "s3" THEN t \in s ELSE t \in DOMAIN d

\* delete_s3_object reaches the bucket only with a configured s3 client
S3Reachable == STORAGE_BACKEND = "s3" /\ S3_CONFIGURED

\* compute_expiry
compute_expiryMut(days) ==
    IF days <= 1 THEN Null ELSE now + Min(days, MAX_EXPIRE_DAYS)
compute_expiry(days) ==
    IF days <= 0 THEN Null ELSE now + Min(days, MAX_EXPIRE_DAYS)

\* upload's clamp of expires_in_days to [0..MAX]
ClampDays(d) ==
    LET lo == IF d < 0 THEN 0 ELSE d
    IN  IF lo > MAX_EXPIRE_DAYS THEN MAX_EXPIRE_DAYS ELSE lo

\* f without the entries of S (DELETE FROM files WHERE token = ?, unlink)
Without(f, S) == Restrict(f, DOMAIN f \ S)

\* f with x mapped to v (INSERT INTO files, a file written)
With(f, x, v) == [y \in DOMAIN f \cup {x} |-> IF y = x THEN v ELSE f[y]]

\* ------------------------------------------------------------- initial state
\* files.db and STORAGE_DIR as earlier runs left them: empty, or one row that
\* no upload of this version writes: a legacy row without deadline and flag,
\* a row whose deadline does not parse, a row whose file is gone.
InitRows == {
    [row |-> Row(Null, FALSE, "local", 0), present |-> TRUE],
    [row |-> Row(Null, FALSE, "local", 0), present |-> FALSE],
    [row |-> Row(Corrupt, FALSE, "local", 0), present |-> TRUE],
    [row |-> Row(MaxTime, FALSE, "local", 0), present |-> FALSE] }

Init ==
    /\ now = 1
    /\ \/ db = << >> /\ disk = << >>
       \/ \E i \in InitRows :
             /\ db = [t \in {1} |-> i.row]
             /\ disk = IF i.present THEN [t \in {1} |-> 0] ELSE << >>
    /\ s3 = {}
    /\ DEFAULT_EXPIRE_DAYS \in Days
    /\ MAX_EXPIRE_DAYS \in 1..MaxDays
    /\ STORAGE_BACKEND \in {"local", "s3"}
    /\ S3_CONFIGURED \in BOOLEAN
    /\ (STORAGE_BACKEND = "local" => S3_CONFIGURED = FALSE)
    /\ up = << >>
    /\ issued = DOMAIN db
    /\ streams = [t \in Tokens |-> 0]
    /\ localTasks = [t \in Tokens |-> 0]
    /\ s3Tasks = [t \in Tokens |-> 0]
    /\ consumed = {}
    /\ sweeper = "sleep"
    /\ cut = {}
    /\ cleanup_interval_hours = CLEANUP_INTERVAL_HOURS
    /\ ev = Event("start", 0, "ok")

\* ------------------------------------------------------------- upload
\* result of the s3 branch of upload
S3UploadResult(outcome) ==
    IF ~S3_CONFIGURED THEN "Misconfigured"
    ELSE IF outcome = "write_fail" THEN "WriteError"
    ELSE "ok"

\* upload reaches its INSERT only when no exception left the handler before
InsertsMut(res) == TRUE
Inserts(res) == res = "ok"

\* POST /api/upload up to its first suspension: the whole s3 branch, or the
\* local branch up to the first await of the chunk loop
UploadMut(t, d, permitted, outcome) ==
    /\ t \notin issued
    /\ \A u \in Tokens : u < t => u \in issued
    /\ outcome = "write_fail" => permitted /\ STORAGE_BACKEND = "s3"
    /\ IF ~permitted THEN
          /\ ev' = Event("upload", t, "Forbidden")
          /\ disk' = IF STORAGE_BACKEND = "s3" THEN disk ELSE With(disk, t, now)
          /\ s3' = IF S3Reachable THEN s3 \cup {t} ELSE s3
          /\ UNCHANGED <<db, up, issued>>
       ELSE IF STORAGE_BACKEND = "s3" THEN
          LET res == S3UploadResult(outcome)
              days == ClampDays(d)
          IN  /\ s3' = IF res = "ok" THEN s3 \cup {t} ELSE s3
              /\ db' = IF Inserts(res)
                       THEN With(db, t, Row(compute_expiry(days), days = 0, "s3", now))
                       ELSE db
              /\ issued' = issued \cup {t}
              /\ ev' = Event("upload", t, res)
              /\ UNCHANGED <<disk, up>>
       ELSE
          /\ disk' = With(disk, t, now)
          /\ up' = With(up, t, [days |-> ClampDays(d), req |-> d])
          /\ issued' = issued \cup {t}
          /\ ev' = Event("upload", t, "Writing")
          /\ UNCHANGED <<db, s3>>
    /\ UNCHANGED <<now, DEFAULT_EXPIRE_DAYS, MAX_EXPIRE_DAYS, STORAGE_BACKEND,
                   S3_CONFIGURED, streams, localTasks, s3Tasks, consumed, sweeper, cut, cleanup_interval_hours>>
Upload(t, d, permitted, outcome) ==
    /\ t \notin issued
    /\ \A u \in Tokens : u < t => u \in issued
    /\ outcome = "write_fail" => permitted /\ STORAGE_BACKEND = "s3"
    /\ IF ~permitted THEN
          /\ ev' = Event("upload", t, "Forbidden")
          /\ UNCHANGED <<db, disk, s3, up, issued>>
       ELSE IF STORAGE_BACKEND = "s3" THEN
          LET res == S3UploadResult(outcome)
              days == ClampDays(d)
          IN  /\ s3' = IF res = "ok" THEN s3 \cup {t} ELSE s3
              /\ db' = IF Inserts(res)
                       THEN With(db, t, Row(compute_expiry(days), days = 0, "s3", now))
                       ELSE db
              /\ issued' = issued \cup {t}
              /\ ev' = Event("upload", t, res)
              /\ UNCHANGED <<disk, up>>
       ELSE
          /\ disk' = With(disk, t, now)
          /\ up' = With(up, t, [days |-> ClampDays(d), req |-> d])
          /\ issued' = issued \cup {t}
          /\ ev' = Event("upload", t, "Writing")
          /\ UNCHANGED <<db, s3>>
    /\ UNCHANGED <<now, DEFAULT_EXPIRE_DAYS, MAX_EXPIRE_DAYS, STORAGE_BACKEND,
                   S3_CONFIGURED, streams, localTasks, s3Tasks, consumed, sweeper, cut, cleanup_interval_hours>>

\* the rest of the local branch: the chunk loop ends or a write raises
UploadChunkMut(t, outcome) ==
    /\ t \in DOMAIN up
    /\ LET res == IF outcome = "write_fail" THEN "WriteError" ELSE "ok"
       IN  /\ disk' = IF res = "ok" THEN With(disk, t, now) ELSE disk
           /\ db' = IF Inserts(res)
                    THEN With(db, t, Row(IF up[t].days = 0 THEN Null ELSE now + up[t].days,
                                          up[t].days = 0, "local", now))
                    ELSE db
           /\ ev' = Event("upload", t, res)
    /\ up' = Without(up, {t})
    /\ UNCHANGED <<s3, now, DEFAULT_EXPIRE_DAYS, MAX_EXPIRE_DAYS, STORAGE_BACKEND,
                   S3_CONFIGURED, issued, streams, localTasks, s3Tasks, consumed, sweeper, cut, cleanup_interval_hours>>
UploadChunk(t, outcome) ==
    /\ t \in DOMAIN up
    /\ LET res == IF outcome = "write_fail" THEN "WriteError" ELSE "ok"
       IN  /\ disk' = IF res = "ok" THEN With(disk, t, now) ELSE disk
           /\ db' = IF Inserts(res)
                    THEN With(db, t, Row(compute_expiry(up[t].days), up[t].days = 0,
                                          "local", now))
                    ELSE db
           /\ ev' = Event("upload", t, res)
    /\ up' = Without(up, {t})
    /\ UNCHANGED <<s3, now, DEFAULT_EXPIRE_DAYS, MAX_EXPIRE_DAYS, STORAGE_BACKEND,
                   S3_CONFIGURED, issued, streams, localTasks, s3Tasks, consumed, sweeper, cut, cleanup_interval_hours>>

\* POST /api/upload when secrets.token_urlsafe returns the token of an
\* existing row t: the object is stored under the new file id (u stands for
\* it; no row will name it), the INSERT violates UNIQUE(token) and raises
\* sqlite3.IntegrityError, which except sqlite3.OperationalError does not
\* catch: the request ends with status 500.  There is no second attempt.  The
\* steps of the request up to the INSERT are taken together.
UploadCollision(t, u) ==
    /\ t \in DOMAIN db
    /\ u \notin issued
    /\ \A v \in Tokens : v < u => v \in issued
    /\ STORAGE_BACKEND = "s3" => S3_CONFIGURED
    /\ issued' = issued \cup {u}
    /\ IF STORAGE_BACKEND = "s3"
       THEN s3' = s3 \cup {u} /\ disk' = disk
       ELSE disk' = With(disk, u, now) /\ s3' = s3
    /\ db' = db
    /\ ev' = Event("upload", t, "IntegrityError")
    /\ UNCHANGED <<now, DEFAULT_EXPIRE_DAYS, MAX_EXPIRE_DAYS, STORAGE_BACKEND, S3_CONFIGURED,
                   up, streams, localTasks, s3Tasks, consumed, sweeper, cut, cleanup_interval_hours>>

\* ------------------------------------------------------------- download
\* the deadline check of download: a parseable deadline that has passed; a
\* deadline that does not parse raises ValueError, which download passes over
Expired(r) == r.exp # Null /\ r.exp # Corrupt /\ After(r.exp)

\* deferred deletions of token t that are scheduled or will be scheduled
Pending(t) == streams[t] + localTasks[t] + s3Tasks[t]

\* what GET /d/{token} answers
DownloadResult(t, wantsHtml) ==
    IF t \notin DOMAIN db THEN "NotFound"
    ELSE IF Expired(db[t]) THEN "Gone"
    ELSE IF db[t].storage = "local" /\ ~LocalExists(t, disk) THEN "Missing"
    ELSE IF wantsHtml THEN "Landing"
    ELSE IF db[t].storage = "s3"
         THEN IF S3Reachable THEN "Redirect" ELSE "Error"
    ELSE "Content"

\* GET /api/link-status/{token}: the value of "exists"; a deadline that does
\* not parse gives FALSE
link_status(t) ==
    IF t \notin DOMAIN db THEN FALSE
    ELSE IF db[t].exp = Null THEN TRUE
    ELSE IF db[t].exp = Corrupt THEN FALSE
    ELSE ~After(db[t].exp)

\* GET /api/link-status/{token}: one SELECT, then the answer
LinkStatusMut(t) ==
    /\ ev' = Event("link_status", t, IF link_status(t) THEN "exists" ELSE "gone")
    /\ db' = IF t \in DOMAIN db /\ ~link_status(t) THEN Without(db, {t}) ELSE db
    /\ UNCHANGED <<disk, s3, now, DEFAULT_EXPIRE_DAYS, MAX_EXPIRE_DAYS, STORAGE_BACKEND,
                   S3_CONFIGURED, up, issued, streams, localTasks, s3Tasks, consumed,
                   sweeper, cut, cleanup_interval_hours>>
LinkStatus(t) ==
    /\ ev' = Event("link_status", t, IF link_status(t) THEN "exists" ELSE "gone")
    /\ UNCHANGED <<db, disk, s3, now, DEFAULT_EXPIRE_DAYS, MAX_EXPIRE_DAYS, STORAGE_BACKEND,
                   S3_CONFIGURED, up, issued, streams, localTasks, s3Tasks, consumed,
                   sweeper, cut, cleanup_interval_hours>>

\* GET /d/{token}.  unlinkFails: Path.unlink raises in the expiry branch.
DownloadMut(t, wantsHtml, unlinkFails) ==
    LET res == DownloadResult(t, wantsHtml)
        served == res \in {"Content", "Redirect"}
        oneTime == (served \/ res = "Landing") /\ db[t].one_time
    IN  /\ oneTime => Pending(t) < MaxDl
        /\ unlinkFails => res = "Gone" /\ ObjExists(t, db[t], disk, s3)
        /\ ev' = Event("download", t, res)
        /\ IF res = "Gone" THEN
              \* Path(row["path"]).unlink(missing_ok=True), errors passed over,
              \* then DELETE; the path of an s3 row names no local file
              /\ disk' = IF db[t].storage = "local" /\ ~unlinkFails
                         THEN Without(disk, {t}) ELSE disk
              /\ db' = Without(db, {t})
           ELSE UNCHANGED <<db, disk>>
        /\ streams' = IF oneTime /\ res = "Content"
                      THEN [streams EXCEPT ![t] = @ + 1] ELSE streams
        /\ s3Tasks' = IF oneTime /\ res = "Redirect"
                      THEN [s3Tasks EXCEPT ![t] = @ + 1] ELSE s3Tasks
        /\ consumed' = IF oneTime THEN consumed \cup {t} ELSE consumed
        /\ UNCHANGED <<s3, now, DEFAULT_EXPIRE_DAYS, MAX_EXPIRE_DAYS, STORAGE_BACKEND,
                       S3_CONFIGURED, up, issued, localTasks, sweeper, cut, cleanup_interval_hours>>
Download(t, wantsHtml, unlinkFails) ==
    LET res == DownloadResult(t, wantsHtml)
        served == res \in {"Content", "Redirect"}
        oneTime == served /\ db[t].one_time
    IN  /\ oneTime => Pending(t) < MaxDl
        /\ unlinkFails => res = "Gone" /\ ObjExists(t, db[t], disk, s3)
        /\ ev' = Event("download", t, res)
        /\ IF res = "Gone" THEN
              \* Path(row["path"]).unlink(missing_ok=True), errors passed over,
              \* then DELETE; the path of an s3 row names no local file
              /\ disk' = IF db[t].storage = "local" /\ ~unlinkFails
                         THEN Without(disk, {t}) ELSE disk
              /\ db' = Without(db, {t})
           ELSE UNCHANGED <<db, disk>>
        /\ streams' = IF oneTime /\ res = "Content"
                      THEN [streams EXCEPT ![t] = @ + 1] ELSE streams
        /\ s3Tasks' = IF oneTime /\ res = "Redirect"
                      THEN [s3Tasks EXCEPT ![t] = @ + 1] ELSE s3Tasks
        /\ consumed' = IF oneTime THEN consumed \cup {t} ELSE consumed
        /\ UNCHANGED <<s3, now, DEFAULT_EXPIRE_DAYS, MAX_EXPIRE_DAYS, STORAGE_BACKEND,
                       S3_CONFIGURED, up, issued, localTasks, sweeper, cut, cleanup_interval_hours>>

\* the FileResponse of a one-time download is sent; its background task
\* delete_one_time_file starts
StreamDone(t) ==
    /\ streams[t] > 0
    /\ streams' = [streams EXCEPT ![t] = @ - 1]
    /\ localTasks' = [localTasks EXCEPT ![t] = @ + 1]
    /\ ev' = Event("stream_done", t, "ok")
    /\ UNCHANGED <<db, disk, s3, now, DEFAULT_EXPIRE_DAYS, MAX_EXPIRE_DAYS,
                   STORAGE_BACKEND, S3_CONFIGURED, up, issued, s3Tasks, consumed, sweeper, cut, cleanup_interval_hours>>

\* delete_one_time_file after its sleep
delete_one_time_fileMut(t, unlinkFails) ==
    /\ localTasks[t] > 0
    /\ unlinkFails => LocalExists(t, disk)
    /\ localTasks' = [localTasks EXCEPT ![t] = @ - 1]
    /\ IF LocalExists(t, disk) /\ unlinkFails THEN
          /\ db' = IF t \in DOMAIN db THEN [db EXCEPT ![t].exp = now] ELSE db
          /\ disk' = disk
          /\ ev' = Event("deferred_delete", t, "Fallback")
       ELSE
          /\ disk' = Without(disk, {t})
          /\ db' = db
          /\ ev' = Event("deferred_delete", t,
                         IF LocalExists(t, disk) THEN "ok" ELSE "NoFile")
    /\ UNCHANGED <<s3, now, DEFAULT_EXPIRE_DAYS, MAX_EXPIRE_DAYS, STORAGE_BACKEND,
                   S3_CONFIGURED, up, issued, streams, s3Tasks, consumed, sweeper, cut, cleanup_interval_hours>>
delete_one_time_file(t, unlinkFails) ==
    /\ localTasks[t] > 0
    /\ unlinkFails => LocalExists(t, disk)
    /\ localTasks' = [localTasks EXCEPT ![t] = @ - 1]
    /\ IF LocalExists(t, disk) /\ unlinkFails THEN
          \* fallback: UPDATE files SET expires_at = now
          /\ db' = IF t \in DOMAIN db THEN [db EXCEPT ![t].exp = now] ELSE db
          /\ disk' = disk
          /\ ev' = Event("deferred_delete", t, "Fallback")
       ELSE
          \* unlink, or the warning "File not found on disk"; then DELETE
          /\ disk' = Without(disk, {t})
          /\ db' = Without(db, {t})
          /\ ev' = Event("deferred_delete", t,
                         IF LocalExists(t, disk) THEN "ok" ELSE "NoFile")
    /\ UNCHANGED <<s3, now, DEFAULT_EXPIRE_DAYS, MAX_EXPIRE_DAYS, STORAGE_BACKEND,
                   S3_CONFIGURED, up, issued, streams, s3Tasks, consumed, sweeper, cut, cleanup_interval_hours>>

\* delete_s3_object: the object is gone afterwards unless the call failed;
\* the failure is logged and not raised
S3After(s, K, F) == IF S3Reachable THEN s \ (K \ F) ELSE s

\* delayed_delete_s3 after its sleep
delayed_delete_s3Mut(t, deleteFails) ==
    /\ s3Tasks[t] > 0
    /\ deleteFails => t \in s3
    /\ s3Tasks' = [s3Tasks EXCEPT ![t] = @ - 1]
    /\ s3' = S3After(s3, {t}, IF deleteFails THEN {t} ELSE {})
    /\ db' = Without(db, DOMAIN db)
    /\ ev' = Event("deferred_delete_s3", t, "ok")
    /\ UNCHANGED <<disk, now, DEFAULT_EXPIRE_DAYS, MAX_EXPIRE_DAYS, STORAGE_BACKEND,
                   S3_CONFIGURED, up, issued, streams, localTasks, consumed, sweeper, cut, cleanup_interval_hours>>
delayed_delete_s3(t, deleteFails) ==
    /\ s3Tasks[t] > 0
    /\ deleteFails => t \in s3
    /\ s3Tasks' = [s3Tasks EXCEPT ![t] = @ - 1]
    /\ s3' = S3After(s3, {t}, IF deleteFails THEN {t} ELSE {})
    /\ db' = Without(db, {t})
    /\ ev' = Event("deferred_delete_s3", t, "ok")
    /\ UNCHANGED <<disk, now, DEFAULT_EXPIRE_DAYS, MAX_EXPIRE_DAYS, STORAGE_BACKEND,
                   S3_CONFIGURED, up, issued, streams, localTasks, consumed, sweeper, cut, cleanup_interval_hours>>

\* ------------------------------------------------------------- cleanup
\* the decision of cleanup_expired_files for one row: "delete", "keep", or
\* "error" when datetime.fromisoformat raises ValueError (the row is skipped).
\* The one_time_download column is not selected and plays no part.  The age
\* test file_mtime < now - DEFAULT_EXPIRE_DAYS compares a stamp with a later
\* reading, as After does.
SweepDecisionMut(t, r) ==
    IF r.exp # Null THEN
        IF r.exp = Corrupt THEN "error"
        ELSE IF After(r.exp) THEN "delete"
        ELSE IF DEFAULT_EXPIRE_DAYS = 0 THEN "delete"
        ELSE "keep"
    ELSE "delete"
SweepDecision(t, r) ==
    IF r.exp # Null THEN
        IF r.exp = Corrupt THEN "error"
        ELSE IF After(r.exp) THEN "delete"
        ELSE IF DEFAULT_EXPIRE_DAYS = 0 THEN "delete"
        ELSE "keep"
    ELSE
        IF LocalExists(t, disk) /\ r.storage = "local"
        THEN IF disk[t] <= now - DEFAULT_EXPIRE_DAYS THEN "delete" ELSE "keep"
        ELSE "delete"

\* rows a cleanup cycle decides to delete
Marked == {t \in DOMAIN db : SweepDecision(t, db[t]) = "delete"}

\* rows whose deletion removes a local file
LocalTargetsMut(M) == DOMAIN disk
LocalTargets(M) == {t \in M : db[t].storage # "s3" /\ LocalExists(t, disk)}

\* rows whose deletion calls delete_s3_object
S3Targets(M) == {t \in M : db[t].storage = "s3"}

\* rows of M whose DELETE is executed when the backend deletions of F fail:
\* a failing unlink raises and the row is skipped, a failing delete_s3_object
\* raises nothing
RowsDeletedMut(M, F) == M \ LocalTargets(M)
RowsDeleted(M, F) == M \ (LocalTargets(M) \cap F)

\* cleanup_expired_files: the startup cycle, a periodic cycle or
\* DELETE /api/purge-expired.  F: the rows whose backend deletion fails.
cleanup_expired_filesMut(F) ==
    /\ F \subseteq {t \in Marked : ObjExists(t, db[t], disk, s3)}
    /\ db' = IF \/ F \cap LocalTargets(Marked) # {}
                \/ \E t \in DOMAIN db : SweepDecision(t, db[t]) = "error"
             THEN db
             ELSE Without(db, RowsDeleted(Marked, F))
    /\ disk' = Without(disk, LocalTargets(Marked) \ F)
    /\ s3' = S3After(s3, S3Targets(Marked), F)
    /\ ev' = Event("cleanup", 0, "ok")
    /\ UNCHANGED <<now, DEFAULT_EXPIRE_DAYS, MAX_EXPIRE_DAYS, STORAGE_BACKEND,
                   S3_CONFIGURED, up, issued, streams, localTasks, s3Tasks, consumed, sweeper, cut, cleanup_interval_hours>>
cleanup_expired_files(F) ==
    /\ F \subseteq {t \in Marked : ObjExists(t, db[t], disk, s3)}
    /\ db' = Without(db, RowsDeleted(Marked, F))
    /\ disk' = Without(disk, LocalTargets(Marked) \ F)
    /\ s3' = S3After(s3, S3Targets(Marked), F)
    /\ ev' = Event("cleanup", 0, "ok")
    /\ UNCHANGED <<now, DEFAULT_EXPIRE_DAYS, MAX_EXPIRE_DAYS, STORAGE_BACKEND,
                   S3_CONFIGURED, up, issued, streams, localTasks, s3Tasks, consumed, sweeper, cut, cleanup_interval_hours>>

\* removed_count in the answer of purge_all: one for every DELETE executed
removed_count(F) == Cardinality(RowsDeleted(DOMAIN db, F))

\* DELETE /api/purge-all: the same deletion for every row
purge_allMut(F) ==
    /\ F \subseteq {t \in DOMAIN db : ObjExists(t, db[t], disk, s3)}
    /\ db' = Without(db, RowsDeleted(Marked, F))
    /\ disk' = Without(disk, LocalTargets(Marked) \ F)
    /\ s3' = S3After(s3, S3Targets(Marked), F)
    /\ ev' = Event("purge_all", 0, "ok")
    /\ UNCHANGED <<now, DEFAULT_EXPIRE_DAYS, MAX_EXPIRE_DAYS, STORAGE_BACKEND,
                   S3_CONFIGURED, up, issued, streams, localTasks, s3Tasks, consumed, sweeper, cut, cleanup_interval_hours>>
purge_all(F) ==
    /\ F \subseteq {t \in DOMAIN db : ObjExists(t, db[t], disk, s3)}
    /\ db' = Without(db, RowsDeleted(DOMAIN db, F))
    /\ disk' = Without(disk, LocalTargets(DOMAIN db) \ F)
    /\ s3' = S3After(s3, S3Targets(DOMAIN db), F)
    /\ ev' = Event("purge_all", 0, "ok")
    /\ UNCHANGED <<now, DEFAULT_EXPIRE_DAYS, MAX_EXPIRE_DAYS, STORAGE_BACKEND,
                   S3_CONFIGURED, up, issued, streams, localTasks, s3Tasks, consumed, sweeper, cut, cleanup_interval_hours>>

\* ------------------------------------------------------------- configuration
\* a retention value the admin API accepts
ValidDays(d) == d >= 1 /\ d <= ConfigLimit

\* POST /admin/api/config/app with the retention settings; d or m is Null
\* when the request does not contain the key, and the stored value is then
\* the one compared.  saved: save_config wrote the file
update_app_configMut(d, m, saved) ==
    LET newd == IF d = Null THEN DEFAULT_EXPIRE_DAYS ELSE d
        newm == IF m = Null THEN MAX_EXPIRE_DAYS ELSE m
        ok == (d = Null \/ ValidDays(d)) /\ (m = Null \/ ValidDays(m))
    IN  /\ ~saved => ok
        /\ DEFAULT_EXPIRE_DAYS' = IF ok /\ saved THEN newd ELSE DEFAULT_EXPIRE_DAYS
        /\ MAX_EXPIRE_DAYS' = IF ok /\ saved THEN newm ELSE MAX_EXPIRE_DAYS
        /\ ev' = Event("config", 0, IF ~ok THEN "Rejected"
                                    ELSE IF saved THEN "ok" ELSE "SaveError")
        /\ UNCHANGED <<db, disk, s3, now, STORAGE_BACKEND, S3_CONFIGURED, up, issued,
                       streams, localTasks, s3Tasks, consumed, sweeper, cut, cleanup_interval_hours>>
update_app_config(d, m, saved) ==
    LET newd == IF d = Null THEN DEFAULT_EXPIRE_DAYS ELSE d
        newm == IF m = Null THEN MAX_EXPIRE_DAYS ELSE m
        ok == (d = Null \/ ValidDays(d)) /\ (m = Null \/ ValidDays(m)) /\ newd <= newm
    IN  /\ ~saved => ok
        /\ DEFAULT_EXPIRE_DAYS' = IF ok /\ saved THEN newd ELSE DEFAULT_EXPIRE_DAYS
        /\ MAX_EXPIRE_DAYS' = IF ok /\ saved THEN newm ELSE MAX_EXPIRE_DAYS
        /\ ev' = Event("config", 0, IF ~ok THEN "Rejected"
                                    ELSE IF saved THEN "ok" ELSE "SaveError")
        /\ UNCHANGED <<db, disk, s3, now, STORAGE_BACKEND, S3_CONFIGURED, up, issued,
                       streams, localTasks, s3Tasks, consumed, sweeper, cut, cleanup_interval_hours>>

\* a cleanup interval the admin API accepts (the source compares with 0.1)
ValidHours(h) == h >= 1 /\ h <= IntervalLimit

\* POST /admin/api/config/app with cleanup_interval_hours only.  The value is
\* written to the configuration file; update_runtime_config assigns the
\* retention settings and never CLEANUP_INTERVAL_HOURS, which periodic_cleanup
\* reads at each sleep.
update_cleanup_interval(h, saved) ==
    LET ok == ValidHours(h) /\ DEFAULT_EXPIRE_DAYS <= MAX_EXPIRE_DAYS
    IN  /\ ~saved => ok
        /\ cleanup_interval_hours' = IF ok /\ saved THEN h ELSE cleanup_interval_hours
        /\ ev' = Event("config", 0, IF ~ok THEN "Rejected"
                                    ELSE IF saved THEN "ok" ELSE "SaveError")
        /\ UNCHANGED <<db, disk, s3, now, DEFAULT_EXPIRE_DAYS, MAX_EXPIRE_DAYS,
                       STORAGE_BACKEND, S3_CONFIGURED, up, issued, streams, localTasks,
                       s3Tasks, consumed, sweeper, cut>>

\* POST /api/update-expiry-based-on-config
update_expiry_based_on_config ==
    /\ db' = [t \in DOMAIN db |-> [db[t] EXCEPT !.exp = db[t].created + DEFAULT_EXPIRE_DAYS]]
    /\ ev' = Event("update_expiry", 0, "ok")
    /\ UNCHANGED <<disk, s3, now, DEFAULT_EXPIRE_DAYS, MAX_EXPIRE_DAYS, STORAGE_BACKEND,
                   S3_CONFIGURED, up, issued, streams, localTasks, s3Tasks, consumed, sweeper, cut, cleanup_interval_hours>>

\* ------------------------------------------------------------- sweeper task
\* the process is up: requests are served and the periodic_cleanup task exists
Running == sweeper \in {"sleep", "backoff"}

\* what a cycle of cleanup_expired_files does when the backend deletions of the
\* rows F fail
Sweep(F) ==
    /\ F \subseteq {t \in Marked : ObjExists(t, db[t], disk, s3)}
    /\ db' = Without(db, RowsDeleted(Marked, F))
    /\ disk' = Without(disk, LocalTargets(Marked) \ F)
    /\ s3' = S3After(s3, S3Targets(Marked), F)
    /\ cut' = {}

\* what a cycle leaves that does not reach its conn.commit(): the backend
\* objects of the rows K, processed before the cycle ended, are removed and no
\* DELETE is committed
Interrupted(K) ==
    /\ K \subseteq {t \in Marked : ObjExists(t, db[t], disk, s3)}
    /\ db' = db
    /\ disk' = Without(disk, LocalTargets(K))
    /\ s3' = S3After(s3, S3Targets(K), {})
    /\ cut' = cut \cup {t \in K : ~ObjExists(t, db[t], disk', s3')}

\* periodic_cleanup: the interval sleep ends and a cycle runs to its end
periodic_cleanup(F) ==
    /\ sweeper = "sleep"
    /\ Sweep(F)
    /\ sweeper' = "sleep"
    /\ ev' = Event("periodic", 0, "ok")
    /\ UNCHANGED <<now, DEFAULT_EXPIRE_DAYS, MAX_EXPIRE_DAYS, STORAGE_BACKEND,
                   S3_CONFIGURED, up, issued, streams, localTasks, s3Tasks, consumed, cleanup_interval_hours>>

\* periodic_cleanup: the cycle raises (the SELECT or the commit fails, the
\* exception leaves cleanup_expired_files); except Exception starts the
\* 60 s sleep
periodic_cleanup_error(K) ==
    /\ sweeper = "sleep"
    /\ Interrupted(K)
    /\ sweeper' = "backoff"
    /\ ev' = Event("periodic", 0, "Error")
    /\ UNCHANGED <<now, DEFAULT_EXPIRE_DAYS, MAX_EXPIRE_DAYS, STORAGE_BACKEND,
                   S3_CONFIGURED, up, issued, streams, localTasks, s3Tasks, consumed, cleanup_interval_hours>>

\* periodic_cleanup: the 60 s sleep ends, the loop starts over
backoff_end ==
    /\ sweeper = "backoff"
    /\ sweeper' = "sleep"
    /\ ev' = Event("periodic", 0, "Resumed")
    /\ UNCHANGED <<db, disk, s3, now, DEFAULT_EXPIRE_DAYS, MAX_EXPIRE_DAYS, STORAGE_BACKEND,
                   S3_CONFIGURED, up, issued, streams, localTasks, s3Tasks, consumed, cut, cleanup_interval_hours>>

\* shutdown_event: cleanup_task.cancel() raises CancelledError at the await
\* the task is suspended in, which is one of its two sleeps: the cycle itself
\* has no await.  CancelledError is not an Exception and leaves the loop.
shutdown_eventMut ==
    /\ Running
    /\ sweeper' = IF sweeper = "sleep" THEN "backoff" ELSE "cancelled"
    /\ ev' = Event("shutdown", 0, "ok")
    /\ UNCHANGED <<db, disk, s3, now, DEFAULT_EXPIRE_DAYS, MAX_EXPIRE_DAYS, STORAGE_BACKEND,
                   S3_CONFIGURED, up, issued, streams, localTasks, s3Tasks, consumed, cut, cleanup_interval_hours>>
shutdown_event ==
    /\ Running
    /\ sweeper' = "cancelled"
    /\ ev' = Event("shutdown", 0, "ok")
    /\ UNCHANGED <<db, disk, s3, now, DEFAULT_EXPIRE_DAYS, MAX_EXPIRE_DAYS, STORAGE_BACKEND,
                   S3_CONFIGURED, up, issued, streams, localTasks, s3Tasks, consumed, cut, cleanup_interval_hours>>

\* the process dies, possibly in the middle of a cycle: suspended uploads,
\* transfers and scheduled tasks are lost with it, rows and objects stay
crash(K) ==
    /\ Running
    /\ K # {} => sweeper = "sleep"
    /\ Interrupted(K)
    /\ up' = << >>
    /\ streams' = [t \in Tokens |-> 0]
    /\ localTasks' = [t \in Tokens |-> 0]
    /\ s3Tasks' = [t \in Tokens |-> 0]
    /\ sweeper' = "down"
    /\ ev' = Event("crash", 0, "ok")
    /\ UNCHANGED <<now, DEFAULT_EXPIRE_DAYS, MAX_EXPIRE_DAYS, STORAGE_BACKEND,
                   S3_CONFIGURED, issued, consumed, cleanup_interval_hours>>

\* startup_event: the first cycle runs, then the task is created
startup_event(F) ==
    /\ sweeper = "down"
    /\ Sweep(F)
    /\ sweeper' = "sleep"
    /\ ev' = Event("startup", 0, "ok")
    /\ UNCHANGED <<now, DEFAULT_EXPIRE_DAYS, MAX_EXPIRE_DAYS, STORAGE_BACKEND,
                   S3_CONFIGURED, up, issued, streams, localTasks, s3Tasks, consumed, cleanup_interval_hours>>

\* startup_event: the first cycle raises; nothing catches the exception, so
\* asyncio.create_task(periodic_cleanup()) is not reached
startup_event_error(K) ==
    /\ sweeper = "down"
    /\ Interrupted(K)
    /\ sweeper' = "failed"
    /\ ev' = Event("startup", 0, "Error")
    /\ UNCHANGED <<now, DEFAULT_EXPIRE_DAYS, MAX_EXPIRE_DAYS, STORAGE_BACKEND,
                   S3_CONFIGURED, up, issued, streams, localTasks, s3Tasks, consumed, cleanup_interval_hours>>

\* a request to one of the three administrative endpoints, DELETE
\* /api/purge-all, DELETE /api/purge-expired and POST
\* /api/update-expiry-based-on-config.  permitted: what check_upload_permission
\* answers for the caller; no handler takes the Request or calls it.
AdminMutation(permitted) ==
    \/ \E F \in SUBSET Tokens : purge_all(F)
    \/ \E F \in SUBSET Tokens : cleanup_expired_files(F)
    \/ update_expiry_based_on_config

\* ------------------------------------------------------------- clock
Tick ==
    /\ now < MaxTime
    /\ now' = now + 1
    /\ ev' = Event("tick", 0, "ok")
    /\ UNCHANGED <<db, disk, s3, DEFAULT_EXPIRE_DAYS, MAX_EXPIRE_DAYS, STORAGE_BACKEND,
                   S3_CONFIGURED, up, issued, streams, localTasks, s3Tasks, consumed, sweeper, cut, cleanup_interval_hours>>

Next ==
    \/ \E t \in Tokens, d \in -1..MaxDays + 1, permitted \in BOOLEAN,
          outcome \in {"ok", "write_fail"} : Upload(t, d, permitted, outcome)
    \/ \E t \in Tokens, outcome \in {"ok", "write_fail"} : UploadChunk(t, outcome)
    \/ \E t \in Tokens, wantsHtml \in BOOLEAN, unlinkFails \in BOOLEAN :
          Download(t, wantsHtml, unlinkFails)
    \/ \E t \in Tokens : StreamDone(t)
    \/ \E t \in Tokens, unlinkFails \in BOOLEAN : delete_one_time_file(t, unlinkFails)
    \/ \E t \in Tokens, deleteFails \in BOOLEAN : delayed_delete_s3(t, deleteFails)
    \/ \E F \in SUBSET Tokens : cleanup_expired_files(F)
    \/ \E F \in SUBSET Tokens : purge_all(F)
    \/ \E d \in Days, m \in Days, saved \in BOOLEAN : update_app_config(d, m, saved)
    \/ update_expiry_based_on_config
    \/ Tick

Spec == Init /\ [][Next]_vars

\* upload together with the deletions that run while its chunk loop is suspended
NextUpload ==
    \/ \E t \in Tokens, d \in -1..MaxDays + 1, permitted \in BOOLEAN,
          outcome \in {"ok", "write_fail"} : Upload(t, d, permitted, outcome)
    \/ \E t \in Tokens, outcome \in {"ok", "write_fail"} : UploadChunk(t, outcome)
    \/ \E F \in SUBSET Tokens : cleanup_expired_files(F)
    \/ \E F \in SUBSET Tokens : purge_all(F)
    \/ Tick

SpecUpload == Init /\ [][NextUpload]_vars

\* every operation except the endpoint that rewrites the deadlines
NextLifecycle ==
    \/ \E t \in Tokens, d \in -1..MaxDays + 1, permitted \in BOOLEAN,
          outcome \in {"ok", "write_fail"} : Upload(t, d, permitted, outcome)
    \/ \E t \in Tokens, outcome \in {"ok", "write_fail"} : UploadChunk(t, outcome)
    \/ \E t \in Tokens, wantsHtml \in BOOLEAN, unlinkFails \in BOOLEAN :
          Download(t, wantsHtml, unlinkFails)
    \/ \E t \in Tokens : StreamDone(t)
    \/ \E t \in Tokens, unlinkFails \in BOOLEAN : delete_one_time_file(t, unlinkFails)
    \/ \E t \in Tokens, deleteFails \in BOOLEAN : delayed_delete_s3(t, deleteFails)
    \/ \E F \in SUBSET Tokens : cleanup_expired_files(F)
    \/ \E F \in SUBSET Tokens : purge_all(F)
    \/ \E d \in Days, m \in Days, saved \in BOOLEAN : update_app_config(d, m, saved)
    \/ Tick

SpecLifecycle == Init /\ [][NextLifecycle]_vars

\* the cleanup cycle on the rows that uploads create, as time passes
NextSweep ==
    \/ \E t \in Tokens, d \in -1..MaxDays + 1, permitted \in BOOLEAN,
          outcome \in {"ok", "write_fail"} : Upload(t, d, permitted, outcome)
    \/ \E t \in Tokens, outcome \in {"ok", "write_fail"} : UploadChunk(t, outcome)
    \/ \E F \in SUBSET Tokens : cleanup_expired_files(F)
    \/ Tick

SpecSweep == Init /\ [][NextSweep]_vars

\* the cleanup cycle on the rows of earlier runs, while the retention
\* settings change and time passes
NextRetention ==
    \/ \E F \in SUBSET Tokens : cleanup_expired_files(F)
    \/ \E d \in Days, m \in Days, saved \in BOOLEAN : update_app_config(d, m, saved)
    \/ Tick

SpecRetention == Init /\ [][NextRetention]_vars

\* uploads while the retention settings change
NextUploadConfig ==
    \/ \E t \in Tokens, d \in -1..MaxDays + 1, permitted \in BOOLEAN,
          outcome \in {"ok", "write_fail"} : Upload(t, d, permitted, outcome)
    \/ \E t \in Tokens, outcome \in {"ok", "write_fail"} : UploadChunk(t, outcome)
    \/ \E d \in Days, m \in Days, saved \in BOOLEAN : update_app_config(d, m, saved)

SpecUploadConfig == Init /\ [][NextUploadConfig]_vars

\* the paths that delete a row: the download of an expired link, the deferred
\* deletions of one-time downloads, the cleanup cycle and purge_all
NextDelete ==
    \/ \E t \in Tokens, d \in -1..MaxDays + 1, permitted \in BOOLEAN,
          outcome \in {"ok", "write_fail"} : Upload(t, d, permitted, outcome)
    \/ \E t \in Tokens, outcome \in {"ok", "write_fail"} : UploadChunk(t, outcome)
    \/ \E t \in Tokens, wantsHtml \in BOOLEAN, unlinkFails \in BOOLEAN :
          Download(t, wantsHtml, unlinkFails)
    \/ \E t \in Tokens : StreamDone(t)
    \/ \E t \in Tokens, unlinkFails \in BOOLEAN : delete_one_time_file(t, unlinkFails)
    \/ \E t \in Tokens, deleteFails \in BOOLEAN : delayed_delete_s3(t, deleteFails)
    \/ \E F \in SUBSET Tokens : cleanup_expired_files(F)
    \/ \E F \in SUBSET Tokens : purge_all(F)
    \/ Tick

SpecDelete == Init /\ [][NextDelete]_vars

\* the life of at most two files on a single day: upload, downloads, the
\* deferred deletions that one-time downloads schedule, and cleanup cycles
NextDeferred ==
    \/ \E t \in Tokens, d \in -1..MaxDays + 1, permitted \in BOOLEAN,
          outcome \in {"ok", "write_fail"} :
          Cardinality(issued) <= 1 /\ Upload(t, d, permitted, outcome)
    \/ \E t \in Tokens, outcome \in {"ok", "write_fail"} : UploadChunk(t, outcome)
    \/ \E t \in Tokens, wantsHtml \in BOOLEAN, unlinkFails \in BOOLEAN :
          Download(t, wantsHtml, unlinkFails)
    \/ \E t \in Tokens : StreamDone(t)
    \/ \E t \in Tokens, unlinkFails \in BOOLEAN : delete_one_time_file(t, unlinkFails)
    \/ \E t \in Tokens, deleteFails \in BOOLEAN : delayed_delete_s3(t, deleteFails)
    \/ \E F \in SUBSET Tokens : cleanup_expired_files(F)

SpecDeferred == Init /\ [][NextDeferred]_vars

\* link-status probes between uploads, cleanup cycles and the clock
NextProbe ==
    \/ \E t \in Tokens, d \in -1..MaxDays + 1, permitted \in BOOLEAN,
          outcome \in {"ok", "write_fail"} :
          Cardinality(issued) <= 1 /\ Upload(t, d, permitted, outcome)
    \/ \E t \in Tokens, outcome \in {"ok", "write_fail"} : UploadChunk(t, outcome)
    \/ \E t \in Tokens : LinkStatus(t)
    \/ \E F \in SUBSET Tokens : cleanup_expired_files(F)
    \/ Tick

SpecProbe == Init /\ [][NextProbe]_vars

\* every deletion path next to uploads suspended in the chunk loop
NextRace ==
    \/ \E t \in Tokens, d \in -1..MaxDays + 1, permitted \in BOOLEAN,
          outcome \in {"ok", "write_fail"} :
          Cardinality(issued) <= 1 /\ Upload(t, d, permitted, outcome)
    \/ \E t \in Tokens, outcome \in {"ok", "write_fail"} : UploadChunk(t, outcome)
    \/ \E t \in Tokens, wantsHtml \in BOOLEAN, unlinkFails \in BOOLEAN :
          Download(t, wantsHtml, unlinkFails)
    \/ \E t \in Tokens : StreamDone(t)
    \/ \E t \in Tokens, unlinkFails \in BOOLEAN : delete_one_time_file(t, unlinkFails)
    \/ \E t \in Tokens, deleteFails \in BOOLEAN : delayed_delete_s3(t, deleteFails)
    \/ \E F \in SUBSET Tokens : cleanup_expired_files(F)
    \/ \E F \in SUBSET Tokens : purge_all(F)

SpecRace == Init /\ [][NextRace]_vars

\* requests to the admin configuration API, complete and partial, between
\* uploads
NextConfig ==
    \/ \E t \in Tokens, d \in -1..MaxDays + 1, permitted \in BOOLEAN,
          outcome \in {"ok", "write_fail"} :
          Cardinality(issued) <= 1 /\ Upload(t, d, permitted, outcome)
    \/ \E t \in Tokens, outcome \in {"ok", "write_fail"} : UploadChunk(t, outcome)
    \/ \E d \in Days \cup {Null, ConfigLimit + 1}, m \in Days \cup {Null, ConfigLimit + 1},
          saved \in BOOLEAN : update_app_config(d, m, saved)
    \/ \E h \in 0..MaxHours, saved \in BOOLEAN : update_cleanup_interval(h, saved)

SpecConfig == Init /\ [][NextConfig]_vars

\* uploads and purge_all
NextPurge ==
    \/ \E t \in Tokens, d \in -1..MaxDays + 1, permitted \in BOOLEAN,
          outcome \in {"ok", "write_fail"} : Upload(t, d, permitted, outcome)
    \/ \E t \in Tokens, outcome \in {"ok", "write_fail"} : UploadChunk(t, outcome)
    \/ \E F \in SUBSET Tokens : purge_all(F)
    \/ Tick

SpecPurge == Init /\ [][NextPurge]_vars

\* uploads, among them uploads whose generated token is already taken
NextCollision ==
    \/ \E t \in Tokens, d \in -1..MaxDays + 1, permitted \in BOOLEAN,
          outcome \in {"ok", "write_fail"} : Upload(t, d, permitted, outcome)
    \/ \E t \in Tokens, outcome \in {"ok", "write_fail"} : UploadChunk(t, outcome)
    \/ \E t \in Tokens, u \in Tokens : UploadCollision(t, u)
    \/ \E F \in SUBSET Tokens : cleanup_expired_files(F)
    \/ Tick

SpecCollision == Init /\ [][NextCollision]_vars

\* SpecDeferred where no transfer and no scheduled task waits forever, and
\* where cleanup cycles keep running and a cycle without backend failure
\* comes again and again
SpecDeferredFair ==
    /\ SpecDeferred
    /\ \A t \in Tokens : WF_vars(StreamDone(t))
    /\ \A t \in Tokens : WF_vars(\E unlinkFails \in BOOLEAN : delete_one_time_file(t, unlinkFails))
    /\ \A t \in Tokens : WF_vars(\E deleteFails \in BOOLEAN : delayed_delete_s3(t, deleteFails))
    /\ SF_vars(cleanup_expired_files({}))

\* the loop of periodic_cleanup in a process that stays up: the interval sleep
\* and the 60 s sleep always end, and a cycle in which no backend deletion
\* fails comes again and again
NextSweepLoop ==
    \/ \E t \in Tokens, d \in -1..MaxDays + 1, permitted \in BOOLEAN,
          outcome \in {"ok", "write_fail"} :
          Upload(t, d, permitted, outcome)
    \/ \E t \in Tokens, outcome \in {"ok", "write_fail"} : UploadChunk(t, outcome)
    \/ \E F \in SUBSET Tokens : periodic_cleanup(F)
    \/ \E K \in SUBSET Tokens : periodic_cleanup_error(K)
    \/ backoff_end
    \/ Tick

SpecSweepLoopFair ==
    /\ Init /\ [][NextSweepLoop]_vars
    /\ WF_vars(backoff_end)
    /\ SF_vars(periodic_cleanup({}))

\* the loop of periodic_cleanup while the cleanup interval is reconfigured
NextInterval ==
    \/ \E t \in Tokens, d \in -1..MaxDays + 1, permitted \in BOOLEAN,
          outcome \in {"ok", "write_fail"} :
          Cardinality(issued) <= 1 /\ Upload(t, d, permitted, outcome)
    \/ \E t \in Tokens, outcome \in {"ok", "write_fail"} : UploadChunk(t, outcome)
    \/ \E h \in 0..MaxHours, saved \in BOOLEAN : update_cleanup_interval(h, saved)
    \/ \E F \in SUBSET Tokens : periodic_cleanup(F)
    \/ \E K \in SUBSET Tokens : periodic_cleanup_error(K)
    \/ backoff_end
    \/ Tick

SpecInterval == Init /\ [][NextInterval]_vars

\* SpecSweeper with the retention settings changed at run time
NextRestart ==
    \/ \E t \in Tokens, d \in -1..MaxDays + 1, permitted \in BOOLEAN,
          outcome \in {"ok", "write_fail"} :
          Running /\ Cardinality(issued) <= 1 /\ Upload(t, d, permitted, outcome)
    \/ \E t \in Tokens, outcome \in {"ok", "write_fail"} :
          Running /\ UploadChunk(t, outcome)
    \/ \E d \in Days, m \in Days, saved \in BOOLEAN :
          Running /\ update_app_config(d, m, saved)
    \/ \E F \in SUBSET Tokens : periodic_cleanup(F)
    \/ \E K \in SUBSET Tokens : periodic_cleanup_error(K)
    \/ backoff_end
    \/ \E K \in SUBSET Tokens : crash(K)
    \/ \E F \in SUBSET Tokens : startup_event(F)
    \/ \E K \in SUBSET Tokens : startup_event_error(K)
    \/ Tick

SpecRestart == Init /\ [][NextRestart]_vars

\* the sweeper task from startup to shutdown, with uploads while the process
\* is up and the passing of time
NextSweeper ==
    \/ \E t \in Tokens, d \in -1..MaxDays + 1, permitted \in BOOLEAN,
          outcome \in {"ok", "write_fail"} :
          Running /\ Cardinality(issued) <= 1 /\ Upload(t, d, permitted, outcome)
    \/ \E t \in Tokens, outcome \in {"ok", "write_fail"} :
          Running /\ UploadChunk(t, outcome)
    \/ \E F \in SUBSET Tokens : periodic_cleanup(F)
    \/ \E K \in SUBSET Tokens : periodic_cleanup_error(K)
    \/ backoff_end
    \/ shutdown_event
    \/ \E K \in SUBSET Tokens : crash(K)
    \/ \E F \in SUBSET Tokens : startup_event(F)
    \/ \E K \in SUBSET Tokens : startup_event_error(K)
    \/ Tick

SpecSweeper == Init /\ [][NextSweeper]_vars

\* ------------------------------------------------------------- properties
\* the step just taken is a download of token t
IsDownload(t) == ev'.op = "download" /\ ev'.tok = t

\* the step just taken is a cleanup cycle
IsCleanup == ev'.op = "cleanup"

\* C1: two downloads of one one-time token never both serve the content
\* before the deletion that the first one scheduled has run.
C1_AtMostOneSimultaneousServe == \A t \in Tokens : Pending(t) <= 1

\* C2: a row that a cleanup cycle marks and whose backend object is still
\* there after the cycle (its removal failed) keeps its row, unchanged, and
\* the next cycle marks it again.
C2_SweepRetainsRowOnFailure ==
    [][IsCleanup =>
        \A t \in Marked :
            ObjExists(t, db[t], disk', s3') =>
                /\ t \in DOMAIN db'
                /\ db'[t] = db[t]
                /\ (SweepDecision(t, db[t]) = "delete")']_vars

\* C3: no step removes a row while the backend object of the row stays.
C3_ObjectRemovedBeforeRow ==
    [][\A t \in DOMAIN db :
        t \notin DOMAIN db' => ~ObjExists(t, db[t], disk', s3')]_vars

\* C4: an upload that reports a backend write error or a misconfigured
\* remote backend leaves no row for its token; a row appears only in the
\* step of a successful upload of its token, and the object it refers to is
\* then in the backend.
C4_UploadCommitsAfterWrite ==
    [][/\ \A t \in Tokens :
            (ev'.op = "upload" /\ ev'.tok = t /\ ev'.res \in {"WriteError", "Misconfigured"})
                => t \notin DOMAIN db'
       /\ \A t \in DOMAIN db' \ DOMAIN db :
            /\ ev' = Event("upload", t, "ok")
            /\ ObjExists(t, db'[t], disk', s3')]_vars

\* C4 witness: an upload failed in its backend write and its token has no row.
C4_Witness ==
    /\ ev.op = "upload"
    /\ ev.res \in {"WriteError", "Misconfigured"}
    /\ ev.tok \notin DOMAIN db

\* C5: once a one-time token has served its content, no later download of
\* the token serves content again.
C5_OneTimeServedOnce ==
    [][\A t \in consumed :
        IsDownload(t) => ev'.res \notin {"Content", "Redirect"}]_vars

\* C6: a download of a row whose deadline has passed answers Gone, and after
\* it the row and the backend object are both gone, for either backend.
C6_ExpiredDownloadRemovesBoth ==
    [][\A t \in DOMAIN db :
        (IsDownload(t) /\ Expired(db[t])) =>
            /\ ev'.res = "Gone"
            /\ t \notin DOMAIN db'
            /\ ~ObjExists(t, db[t], disk', s3')]_vars

\* C7: when a download finds the deadline passed and the local file cannot be
\* removed (it is there before and after the step), the row is retained.
C7_ExpiredDownloadKeepsRowOnFailure ==
    [][\A t \in DOMAIN db :
        (/\ IsDownload(t)
         /\ Expired(db[t])
         /\ db[t].storage = "local"
         /\ LocalExists(t, disk)
         /\ LocalExists(t, disk')) => t \in DOMAIN db']_vars

\* C8: a cleanup cycle never deletes a one-time row (no deadline, flag set)
\* that has not served its content yet.
C8_SweepSparesUnusedOneTime ==
    [][IsCleanup =>
        \A t \in DOMAIN db :
            (db[t].exp = Null /\ db[t].one_time /\ t \notin consumed
             /\ ObjExists(t, db[t], disk, s3)) => t \in DOMAIN db']_vars

\* C9: a cleanup cycle never deletes a row whose deadline lies in the future,
\* whatever the default retention is.
C9_SweepSparesFutureDeadline ==
    [][IsCleanup =>
        \A t \in DOMAIN db :
            (db[t].exp # Null /\ db[t].exp # Corrupt /\ ~After(db[t].exp)
             /\ ObjExists(t, db[t], disk, s3)) => t \in DOMAIN db']_vars

\* C10: as long as a row exists, its deadline and its one-time flag keep the
\* values they had.
C10_DeadlineAndFlagImmutable ==
    [][\A t \in DOMAIN db \cap DOMAIN db' :
        /\ db'[t].exp = db[t].exp
        /\ db'[t].one_time = db[t].one_time]_vars

C12_UploadRowShape ==
    [][/\ \A t \in DOMAIN db' \ DOMAIN db :
            \/ db'[t].exp = Null /\ db'[t].one_time
            \/ db'[t].exp >= 0 /\ ~db'[t].one_time
       /\ \A t \in Tokens, d \in -1..MaxDays + 1, outcome \in {"ok", "write_fail"} :
            Upload(t, d, TRUE, outcome) =>
                LET zero == (IF d < 0 THEN 0 ELSE Min(d, MAX_EXPIRE_DAYS)) = 0
                IN  /\ t \in DOMAIN db' => (db'[t].one_time <=> zero)
                    /\ t \in DOMAIN up' => (up'[t].days = 0 <=> zero)
       /\ \A t \in DOMAIN up \cap DOMAIN db' : db'[t].one_time <=> up[t].days = 0]_vars

\* C12 witness: uploads have created a one-time row without deadline and a
\* row with a deadline and without the flag.
C12_Witness ==
    /\ ev.op = "upload" /\ ev.res = "ok"
    /\ \E t \in DOMAIN db : db[t].created >= 1 /\ db[t].exp = Null /\ db[t].one_time
    /\ \E t \in DOMAIN db : db[t].created >= 1 /\ db[t].exp >= 0 /\ ~db[t].one_time

\* C13: the row an upload creates for a requested retention d >= 1 has the
\* deadline created_at + d when d is at most the maximum retention configured
\* when the row is written, and created_at + that maximum when d is larger.
C13_DeadlineIsClampedRequest ==
    [][/\ \A t \in Tokens, d \in 1..MaxDays + 1, outcome \in {"ok", "write_fail"} :
            (Upload(t, d, TRUE, outcome) /\ t \in DOMAIN db') =>
                db'[t].exp = db'[t].created + Min(d, MAX_EXPIRE_DAYS)
       /\ \A t \in DOMAIN up \cap DOMAIN db' :
            up[t].req >= 1 =>
                db'[t].exp = db'[t].created + Min(up[t].req, MAX_EXPIRE_DAYS)]_vars

\* C14 as stated: a cleanup cycle that directly follows a cleanup cycle
\* removes no row and no object.
C14_SecondSweepIsNoOp ==
    [][(ev.op = "cleanup" /\ IsCleanup) =>
        /\ db' = db
        /\ disk' = disk
        /\ s3' = s3]_vars

\* C14 amended: a cleanup cycle that directly follows a cleanup cycle removes
\* nothing but the local rows whose file is still present (the unlink of the
\* first cycle failed), each together with its file; every other row, every
\* other file and the bucket stay as they are.
C14_SecondSweepOnlyRetries ==
    [][(ev.op = "cleanup" /\ IsCleanup) =>
        /\ s3' = s3
        /\ \A t \in DOMAIN db \ DOMAIN db' :
              db[t].storage = "local" /\ LocalExists(t, disk) /\ ~LocalExists(t, disk')
        /\ \A t \in DOMAIN disk \ DOMAIN disk' : t \in DOMAIN db \ DOMAIN db'
        /\ \A t \in DOMAIN db' : t \in DOMAIN db /\ db'[t] = db[t]
        /\ \A t \in DOMAIN disk' : t \in DOMAIN disk /\ disk'[t] = disk[t]]_vars

\* C14 witness: a cleanup cycle has run and has left a row that it marks,
\* with its file; the cycle that follows starts here and has a row to retry.
C14_Witness ==
    /\ ev.op = "cleanup"
    /\ \E t \in DOMAIN db :
          /\ SweepDecision(t, db[t]) = "delete"
          /\ db[t].storage = "local"
          /\ LocalExists(t, disk)
    /\ \E t \in DOMAIN db : SweepDecision(t, db[t]) = "keep"

C16_SweepRemovesOrphanRow ==
    [][IsCleanup =>
        \A t \in DOMAIN db :
            (db[t].storage = "local" /\ ~LocalExists(t, disk)) => t \notin DOMAIN db']_vars

\* C17: a cleanup cycle never deletes an s3 row because its path names no
\* file of the local filesystem: an s3 row without deadline, which no other
\* rule of the cycle marks, keeps its row and its object.
C17_SweepExistenceCheckLocalOnly ==
    [][IsCleanup =>
        \A t \in DOMAIN db :
            (db[t].storage = "s3" /\ db[t].exp = Null /\ t \in s3) =>
                t \in DOMAIN db' /\ t \in s3']_vars

\* the step just taken executed DELETE FROM files for token t without an
\* error: a deferred deletion that ended normally, or the download of an
\* expired link
IsDeleteOf(t) ==
    /\ ev'.tok = t
    /\ \/ ev'.op \in {"deferred_delete", "deferred_delete_s3"} /\ ev'.res \in {"ok", "NoFile"}
       \/ ev'.op = "download" /\ ev'.res = "Gone"

\* C18: after a step that deletes the row of token t, a download of t answers
\* NotFound; when the row was already absent (another deletion of t ran
\* first) the table is unchanged and the step still ends without error; and a
\* token whose row has been deleted never has a row again.
C18_DeleteThenNotFound ==
    [][\A t \in Tokens :
        /\ IsDeleteOf(t) =>
              /\ DownloadResult(t, FALSE)' = "NotFound"
              /\ t \notin DOMAIN db => db' = db
        /\ (t \in issued /\ t \notin DOMAIN db /\ t \notin DOMAIN up) =>
              DownloadResult(t, FALSE)' = "NotFound"]_vars

\* C18 witness: a deferred deletion of a token has ended normally, the row is
\* gone, and a second deferred deletion of the same token is still to run.
C18_Witness ==
    /\ ev.op \in {"deferred_delete", "deferred_delete_s3"}
    /\ ev.res \in {"ok", "NoFile"}
    /\ ev.tok \notin DOMAIN db
    /\ localTasks[ev.tok] + s3Tasks[ev.tok] >= 1

\* the step just taken is a deferred deletion of token t
IsDeferred(t) == ev'.tok = t /\ ev'.op \in {"deferred_delete", "deferred_delete_s3"}

ActsOn(t) ==
    \/ IsDeferred(t)
    \/ IsDownload(t) /\ ev'.res = "Gone"
    \/ IsCleanup /\ t \in Marked
    \/ ev'.op = "purge_all" /\ t \in DOMAIN db

\* C20: a deletion path that works on a record whose row or whose backend
\* object is already absent ends without error, and after it neither the row
\* nor the object of the record is left.
C20_AbsentIsSuccess ==
    [][\A t \in Tokens :
        (/\ ActsOn(t)
         /\ \/ t \notin DOMAIN db
            \/ ~ObjExists(t, db[t], disk, s3)) =>
            /\ ev'.res \in {"ok", "NoFile", "Gone"}
            /\ t \notin DOMAIN db'
            /\ t \notin DOMAIN disk'
            /\ t \notin s3']_vars

\* C21: once a one-time token has served its content, its row and its backend
\* object are eventually both gone.
C21_OneTimeEventuallyDeleted ==
    \A t \in Tokens :
        (t \in consumed) ~> (t \notin DOMAIN db /\ t \notin DOMAIN disk /\ t \notin s3)

\* C22: a row whose expires_at lies in the past is eventually gone together
\* with its backend object.
C22_ExpiredEventuallyRemoved ==
    \A t \in Tokens :
        (t \in DOMAIN db /\ Expired(db[t]))
            ~> (t \notin DOMAIN db /\ t \notin DOMAIN disk /\ t \notin s3)

\* C23: when a cleanup cycle, the one of startup_event or one of
\* periodic_cleanup, has just ended with an exception, the sweeper task exists
\* and waits for its next cycle.
C23_CycleErrorKeepsSweeper ==
    (ev.op \in {"periodic", "startup"} /\ ev.res = "Error") => Running

\* C24: the shutdown signal ends the sweeper task whichever of its two sleeps
\* it waits in, the shutdown step itself changes no row, file or object (no
\* cycle is cut between a backend deletion and its DELETE), and a cancelled
\* sweeper stays cancelled and runs no further cycle.
C24_ShutdownStopsSweeper ==
    [][ /\ ev'.op = "shutdown" =>
            sweeper' = "cancelled" /\ db' = db /\ disk' = disk /\ s3' = s3
        /\ sweeper = "cancelled" =>
            sweeper' = "cancelled" /\ ev'.op \notin {"periodic", "startup"}
                /\ db' = db /\ disk' = disk /\ s3' = s3 ]_vars

\* shutdown arrives while rows are waiting for the next cycle
C24_Witness ==
    ev.op = "shutdown" /\ sweeper = "cancelled" /\ Marked # {}

\* C25: a cleanup cycle that completes leaves no row of a record whose backend
\* object was removed by an earlier cycle that did not reach its commit.
C25_NextCycleRemovesInterrupted ==
    [][ (ev'.op \in {"periodic", "startup"} /\ ev'.res = "ok")
            => cut \cap DOMAIN db' = {} ]_vars

\* C26: a row whose expires_at does not parse counts as expired everywhere:
\* link_status reports exists = false, a download of it answers Gone, and a
\* cleanup cycle marks it for deletion.
C26_CorruptDeadlineIsExpired ==
    [][ \A t \in DOMAIN db :
            db[t].exp = Corrupt =>
                /\ ~link_status(t)
                /\ IsDownload(t) => ev'.res = "Gone"
                /\ IsCleanup => t \in Marked ]_vars

\* C28: an upload whose generated token is the token of an existing row
\* leaves that row as it was and still ends successfully, with a row under
\* another token.
C28_CollisionRetried ==
    [][ \A t \in DOMAIN db :
            (ev'.op = "upload" /\ ev'.tok = t) =>
                /\ t \in DOMAIN db' /\ db'[t] = db[t]
                /\ ev'.res = "ok"
                /\ DOMAIN db' # DOMAIN db ]_vars

\* C29: a request to an administrative endpoint from a caller whom
\* check_upload_permission denies changes no row, file or object.
C29_AdminMutationsGated ==
    [][ AdminMutation(FALSE) => UNCHANGED <<db, disk, s3>> ]_vars

\* C30: an upload that check_upload_permission denies answers 403 and leaves
\* rows, files, objects and pending uploads as they were.
C30_DeniedUploadChangesNothing ==
    [][ \A t \in Tokens, d \in -1..MaxDays + 1 :
            Upload(t, d, FALSE, "ok") =>
                ev'.res = "Forbidden" /\ UNCHANGED <<db, disk, s3, up>> ]_vars

\* an upload was denied while a row and its file exist
C30_Witness ==
    ev.op = "upload" /\ ev.res = "Forbidden" /\ db # << >> /\ disk # << >>

\* C31: purge_all in which no backend deletion fails, called while no upload
\* is in progress, leaves no row and no object of a row it found, and its
\* removed_count is the number of rows it found.
C31_PurgeAllEmpties ==
    [][ (purge_all({}) /\ up = << >>) =>
            /\ DOMAIN db' = {}
            /\ \A t \in DOMAIN db : ~ObjExists(t, db[t], disk', s3')
            /\ removed_count({}) = Cardinality(DOMAIN db) ]_vars

\* purge_all has emptied a local store in which every token had written a file
C31_Witness ==
    /\ ev.op = "purge_all" /\ DOMAIN db = {} /\ up = << >>
    /\ STORAGE_BACKEND = "local" /\ issued = Tokens /\ disk = << >>

\* C32: whenever the sweeper starts an interval sleep, after a cycle or after
\* the 60 s sleep, the interval it sleeps for is the cleanup interval of the
\* accepted configuration.
C32_SleepUsesConfiguredInterval ==
    [][ (ev'.op = "periodic" /\ sweeper' = "sleep")
            => CLEANUP_INTERVAL_HOURS = cleanup_interval_hours' ]_vars

\* C33: a link-status request changes no row, file or object and schedules
\* no deletion, whether the token has no row, a live row, an expired row or a
\* row whose deadline does not parse.
C33_LinkStatusChangesNothing ==
    [][ ev'.op = "link_status" =>
            UNCHANGED <<db, disk, s3, streams, localTasks, s3Tasks, consumed, up>> ]_vars

\* the probe has answered for an expired row whose file is still there
C33_Witness ==
    /\ ev.op = "link_status" /\ ev.res = "gone"
    /\ ev.tok \in DOMAIN db /\ Expired(db[ev.tok])
    /\ ObjExists(ev.tok, db[ev.tok], disk, s3)

\* C34: every file in STORAGE_DIR and every object in the bucket belongs to a
\* row or to an upload that is still in its chunk loop.
C34_NoUntrackedObject ==
    \A t \in DOMAIN disk \cup s3 : t \in DOMAIN db \/ t \in DOMAIN up

\* C35: a deferred deletion of a one-time download removes the local file of
\* its token only when no transfer of that file is in flight.
C35_NoDeleteDuringTransfer ==
    [][ \A t \in Tokens :
            (ev'.op = "deferred_delete" /\ ev'.tok = t
                /\ LocalExists(t, disk) /\ ~LocalExists(t, disk'))
            => streams[t] = 0 ]_vars

\* C36: a deferred deletion that leaves the object of its row in the backend
\* leaves the row too, and the row is then one the next cleanup cycle marks.
C36_FailedDeferredKeepsRow ==
    [][ \A t \in DOMAIN db :
            (IsDeferred(t) /\ ObjExists(t, db[t], disk, s3)
                /\ ObjExists(t, db[t], disk', s3'))
            => t \in DOMAIN db' /\ t \in Marked' ]_vars

\* C37: no step removes the file of an upload that is suspended in its chunk
\* loop, and in the step in which a row appears the object it names exists.
C37_DeletionSparesUploads ==
    [][ /\ \A t \in DOMAIN up : LocalExists(t, disk) => LocalExists(t, disk')
        /\ \A t \in DOMAIN db' \ DOMAIN db : ObjExists(t, db'[t], disk', s3') ]_vars

\* a deferred deletion has removed a file while another upload was suspended
C37_Witness ==
    /\ ev.op = "deferred_delete" /\ ev.res = "ok"
    /\ \E u \in DOMAIN up : u # ev.tok /\ LocalExists(u, disk)

\* C38: a row that appears with a deadline has a deadline at most
\* MAX_EXPIRE_DAYS, as configured in the step that writes the row, after its
\* created_at.
C38_DeadlineWithinCurrentMax ==
    [][ \A t \in DOMAIN db' \ DOMAIN db :
            db'[t].exp # Null => db'[t].exp - db'[t].created <= MAX_EXPIRE_DAYS' ]_vars

\* a local upload has committed a row at the maximum while another upload,
\* clamped before the maximum was lowered, is still suspended
C38_Witness ==
    /\ ev.op = "upload" /\ ev.res = "ok" /\ ev.tok \in DOMAIN db
    /\ db[ev.tok].storage = "local"
    /\ db[ev.tok].exp = db[ev.tok].created + MAX_EXPIRE_DAYS
    /\ \E u \in DOMAIN up : up[u].days > MAX_EXPIRE_DAYS

\* C39: a download request answered with the landing page changes no row,
\* file or object, schedules no deletion and does not consume the token.
C39_LandingPageChangesNothing ==
    [][ \A t \in Tokens :
            (IsDownload(t) /\ ev'.res = "Landing") =>
                UNCHANGED <<db, disk, s3, streams, localTasks, s3Tasks, consumed>> ]_vars

\* the landing page was shown for a one-time token that has served nothing yet
C39_Witness ==
    /\ ev.op = "download" /\ ev.res = "Landing"
    /\ ev.tok \in DOMAIN db /\ db[ev.tok].one_time /\ ev.tok \notin consumed

\* the relation the admin API maintains between the retention settings
ValidConfig ==
    /\ 1 <= DEFAULT_EXPIRE_DAYS
    /\ DEFAULT_EXPIRE_DAYS <= MAX_EXPIRE_DAYS
    /\ MAX_EXPIRE_DAYS <= ConfigLimit

\* C40: a step taken with 1 <= DEFAULT_EXPIRE_DAYS <= MAX_EXPIRE_DAYS <= 365
\* ends with that relation, and a configuration request that is rejected or
\* whose file cannot be written leaves both settings as they were.
C40_ConfigStaysValid ==
    [][ /\ ValidConfig => ValidConfig'
        /\ (ev'.op = "config" /\ ev'.res # "ok") =>
               UNCHANGED <<DEFAULT_EXPIRE_DAYS, MAX_EXPIRE_DAYS>> ]_vars

\* a request was rejected while the settings, the default at least 2, satisfy
\* the relation
C40_Witness ==
    /\ ev.op = "config" /\ ev.res = "Rejected"
    /\ ValidConfig /\ DEFAULT_EXPIRE_DAYS >= 2

====
